---- MODULE Spec2Model ----
(***************************************************************************)
(* A model of the two fixture scripts of RefereAssign:                     *)
(*   fixture_generator.py  (calculate_target_week, get_fixtures)           *)
(*   fixture_scraper.py    (get_target_date_range, is_date_in_range,       *)
(*                          scrape_11s_league, create_night_availability,  *)
(*                          main_scraper)                                  *)
(* Texts are strings handled character by character; calendar dates are    *)
(* proleptic Gregorian ordinals, as datetime.date keeps them.              *)
(***************************************************************************)
EXTENDS Integers, Sequences, FiniteSets, TLC

(***************************************************************************)
(* Text primitives (str methods used by the scripts).                      *)
(***************************************************************************)
Digits == "0123456789"
UpperLetters == "ABCDEFGHIJKLMNOPQRSTUVWXYZ"
LowerLetters == "abcdefghijklmnopqrstuvwxyz"

CharAt(s, i) == SubSeq(s, i, i)

\* position of the one-character text c in the alphabet a, 0 when absent
IndexIn(a, c) ==
  IF \E i \in 1..Len(a) : CharAt(a, i) = c
  THEN CHOOSE i \in 1..Len(a) : CharAt(a, i) = c
  ELSE 0

UpperSet == {CharAt(UpperLetters, i) : i \in 1..Len(UpperLetters)}
LowerSet == {CharAt(LowerLetters, i) : i \in 1..Len(LowerLetters)}
DigitSet == {CharAt(Digits, i) : i \in 1..Len(Digits)}

ToLower == [c \in UpperSet |-> CharAt(LowerLetters, IndexIn(UpperLetters, c))]
ToUpper == [c \in LowerSet |-> CharAt(UpperLetters, IndexIn(LowerLetters, c))]
DigitValue == [c \in DigitSet |-> IndexIn(Digits, c) - 1]

IsDigit(c) == c \in DigitSet
IsLetter(c) == c \in UpperSet \/ c \in LowerSet

LowerChar(c) == IF c \in UpperSet THEN ToLower[c] ELSE c

UpperChar(c) == IF c \in LowerSet THEN ToUpper[c] ELSE c

\* str.lower()
RECURSIVE Lower(_)
Lower(s) == IF s = "" THEN "" ELSE LowerChar(Head(s)) \o Lower(Tail(s))

\* str.title(): a letter that follows a non-letter is upper-cased, every
\* other letter is lower-cased
RECURSIVE TitleFrom(_, _)
TitleFrom(s, afterLetter) ==
  IF s = "" THEN ""
  ELSE LET c == Head(s)
       IN (IF afterLetter THEN LowerChar(c) ELSE UpperChar(c))
            \o TitleFrom(Tail(s), IsLetter(c))

Title(s) == TitleFrom(s, FALSE)

\* str.strip(): leading and trailing blanks removed
RECURSIVE LStrip(_)
LStrip(s) == IF s # "" /\ Head(s) = " " THEN LStrip(Tail(s)) ELSE s

RECURSIVE RStrip(_)
RStrip(s) ==
  IF s # "" /\ CharAt(s, Len(s)) = " "
  THEN RStrip(SubSeq(s, 1, Len(s) - 1))
  ELSE s

Strip(s) == RStrip(LStrip(s))

\* str.replace(old, new) for one-character old and new
RECURSIVE Replace(_, _, _)
Replace(s, old, new) ==
  IF s = "" THEN ""
  ELSE (IF Head(s) = old THEN new ELSE Head(s)) \o Replace(Tail(s), old, new)

\* str.split(sep) for a one-character separator: the sequence of the pieces
\* between the separators
Split(s, sep) ==
  LET P == {i \in 1..Len(s) : CharAt(s, i) = sep}
      \* the k-th separator; 0 before the first, Len(s) + 1 after the last
      At(k) == IF k = 0 THEN 0
               ELSE IF k > Cardinality(P) THEN Len(s) + 1
               ELSE CHOOSE q \in P : Cardinality({r \in P : r < q}) = k - 1
  IN [k \in 1..(Cardinality(P) + 1) |-> SubSeq(s, At(k - 1) + 1, At(k) - 1)]

\* the Python operator `sub in s`
Contains(s, sub) ==
  \E i \in 1..(Len(s) - Len(sub) + 1) : SubSeq(s, i, i + Len(sub) - 1) = sub

(***************************************************************************)
(* datetime.date: ordinals, weekdays, parsing and formatting.              *)
(***************************************************************************)
IsLeap(y) == y % 4 = 0 /\ (y % 100 # 0 \/ y % 400 = 0)

DaysInMonth(y, m) ==
  IF m = 2 THEN (IF IsLeap(y) THEN 29 ELSE 28)
  ELSE IF m \in {4, 6, 9, 11} THEN 30 ELSE 31

DaysBeforeYear(y) ==
  (y - 1) * 365 + ((y - 1) \div 4) - ((y - 1) \div 100) + ((y - 1) \div 400)

RECURSIVE DaysBeforeMonth(_, _)
DaysBeforeMonth(y, m) ==
  IF m = 1 THEN 0 ELSE DaysBeforeMonth(y, m - 1) + DaysInMonth(y, m - 1)

\* date(y, m, d).toordinal()
ToOrdinal(y, m, d) == DaysBeforeYear(y) + DaysBeforeMonth(y, m) + d

\* date.weekday(): Monday is 0 and Sunday is 6
Weekday(n) == (n + 6) % 7

\* the value of a text of digits
RECURSIVE NumFrom(_, _)
NumFrom(s, acc) ==
  IF s = "" THEN acc ELSE NumFrom(Tail(s), acc * 10 + DigitValue[Head(s)])

Num(s) == NumFrom(s, 0)

AllDigits(s) == \A i \in 1..Len(s) : IsDigit(CharAt(s, i))

\* the directives of strptime: %Y is four digits, %m one or two digits in
\* 1..12, %d one or two digits (or a blank and a digit) in 1..31
IsYearText(s) == Len(s) = 4 /\ AllDigits(s)
IsMonthText(s) == Len(s) \in {1, 2} /\ AllDigits(s) /\ Num(s) \in 1..12
IsDayText(s) ==
  \/ Len(s) \in {1, 2} /\ AllDigits(s) /\ Num(s) \in 1..31
  \/ Len(s) = 2 /\ CharAt(s, 1) = " " /\ IsDigit(CharAt(s, 2)) /\ Num(Tail(s)) \in 1..9

DayValue(s) == IF CharAt(s, 1) = " " THEN Num(Tail(s)) ELSE Num(s)

\* 0 stands for the ValueError of strptime or of the date constructor
NoDate == 0

DateOrError(y, m, d) ==
  IF y >= 1 /\ d <= DaysInMonth(y, m) THEN ToOrdinal(y, m, d) ELSE NoDate

\* datetime.strptime(s, '%d/%m/%Y').date()
ParseDMY(s) ==
  LET f == Split(s, "/")
  IN IF Len(f) = 3 /\ IsDayText(f[1]) /\ IsMonthText(f[2]) /\ IsYearText(f[3])
     THEN DateOrError(Num(f[3]), Num(f[2]), DayValue(f[1]))
     ELSE NoDate

\* datetime.strptime(s, '%Y-%m-%d').date()
ParseYMD(s) ==
  LET f == Split(s, "-")
  IN IF Len(f) = 3 /\ IsYearText(f[1]) /\ IsMonthText(f[2]) /\ IsDayText(f[3])
     THEN DateOrError(Num(f[1]), Num(f[2]), DayValue(f[3]))
     ELSE NoDate

\* the year, month and day of an ordinal
YearOf(n) ==
  CHOOSE y \in ((n \div 366) + 1)..((n \div 365) + 1) :
    DaysBeforeYear(y) < n /\ n <= DaysBeforeYear(y + 1)
MonthOf(n) ==
  LET y == YearOf(n)
      r == n - DaysBeforeYear(y)
  IN CHOOSE m \in 1..12 : DaysBeforeMonth(y, m) < r /\ r <= DaysBeforeMonth(y, m) + DaysInMonth(y, m)
DayOf(n) == n - DaysBeforeYear(YearOf(n)) - DaysBeforeMonth(YearOf(n), MonthOf(n))

\* a number as zero-padded decimal text of at least w characters
RECURSIVE Pad(_, _)
Pad(k, w) ==
  IF w <= 1 /\ k < 10 THEN CharAt(Digits, k + 1)
  ELSE Pad(k \div 10, w - 1) \o CharAt(Digits, (k % 10) + 1)

\* date.strftime('%Y-%m-%d') and str(date)
IsoFormat(n) == Pad(YearOf(n), 4) \o "-" \o Pad(MonthOf(n), 2) \o "-" \o Pad(DayOf(n), 2)


(***************************************************************************)
(* Bounds of the model.                                                    *)
(***************************************************************************)
\* a run of main_scraper or get_fixtures: today is BaseDay .. BaseDay + MaxDayOffset
MaxDayOffset == 2
\* the window calculators alone: today is BaseDay .. BaseDay + MaxCalOffset
MaxCalOffset == 13
\* table rows served to one run of main_scraper, over all league pages
MaxRows == 2
\* table rows (header rows included) on the page served to get_fixtures
MaxGenRows == 3

\* Friday 7 November 2025
BaseDay == ToOrdinal(2025, 11, 7)

SeqsUpTo(S, n) == UNION {[1..k -> S] : k \in 0..n}

RECURSIVE Flatten(_)
Flatten(ss) == IF ss = <<>> THEN <<>> ELSE Head(ss) \o Flatten(Tail(ss))

Fixture(d, t, h, a, p, l) ==
  [date |-> d, time |-> t, home |-> h, away |-> a, pitch |-> p, league |-> l]

(***************************************************************************)
(* fixture_scraper.py                                                      *)
(***************************************************************************)
LEAGUES_11S ==
  << "https://www.betterfootball.co.nz/fixtures-and-standings/mens-premier-11s/",
     "https://www.betterfootball.co.nz/fixtures-and-standings/mens-division-1-11s/" >>

\* LEAGUES_7S_5S as shipped
Default7s5s ==
  << "https://www.betterfootball.co.nz/fixtures-and-standings/mixed-7s-tuesday/",
     "https://www.betterfootball.co.nz/fixtures-and-standings/mens-5s-wednesday/" >>

\* a list an operator may configure instead ("Add all other 7s/5s league
\* URLs here"): a league whose play day is not in day_map
Sunday7s5s ==
  << "https://www.betterfootball.co.nz/fixtures-and-standings/social-7s-sunday/" >>

Configs7s5s == {Default7s5s, Sunday7s5s}

\* the URLs create_night_availability is applied to on its own
NightUrls ==
  { Default7s5s[1],
    Default7s5s[2],
    Sunday7s5s[1],
    "https://www.betterfootball.co.nz/fixtures-and-standings/womens-7s-thursday/",
    "https://www.betterfootball.co.nz/fixtures-and-standings/mens-5s-monday/",
    "https://www.betterfootball.co.nz/fixtures-and-standings/Mixed-7s-TUESDAY/",
    "https://www.betterfootball.co.nz/fixtures-and-standings/mens-5s-wednesday" }

\* CSS_SELECTORS["DATA_COLUMNS"]
DateCol == 1
TimeCol == 2
HomeCol == 3
AwayCol == 4
PitchCol == 5

\* days_until_sat aiming at weekday 6 (Sunday) instead of 5
days_until_sat_sunday(t) == (6 - Weekday(t) + 7) % 7

\* days_until_sat of get_target_date_range
days_until_sat(t) == (5 - Weekday(t) + 7) % 7

\* next_thu of get_target_date_range: "Thursday is 6 days after Saturday"
next_thu(next_sat) == next_sat + 6

\* get_target_date_range(): <<next_sat, next_thu>>
get_target_date_range(t) ==
  LET next_sat == t + days_until_sat(t)
  IN <<next_sat, next_thu(next_sat)>>

\* the comparison without its upper end
InWindow_open_end(d, start, end) == start <= d

\* the comparison start_date <= fixture_date <= end_date
InWindow(d, start, end) == start <= d /\ d <= end

\* is_date_in_range: DD/MM/YYYY first, YYYY-MM-DD as the fallback, False
\* when neither parses
is_date_in_range(fixture_date_str, start, end) ==
  LET dmy == ParseDMY(fixture_date_str)
      ymd == ParseYMD(fixture_date_str)
  IN IF dmy # NoDate THEN InWindow(dmy, start, end)
     ELSE IF ymd # NoDate THEN InWindow(ymd, start, end)
     ELSE FALSE

\* url.split('/')[-2].replace('-', ' ').title()
league_name_of(url) ==
  LET parts == Split(url, "/")
  IN Title(Replace(parts[Len(parts) - 1], "-", " "))

\* row.select_one('td:nth-child(n)') is None when the row has fewer cells
HasCell(row, n) == n <= Len(row)

\* the body of `for row in rows` of scrape_11s_league: the fixtures so far
\* and whether a cell lookup raised (None has no .text)
RECURSIVE ScrapeRows(_, _, _, _, _)
ScrapeRows(rows, start, end, league, fixtures) ==
  IF rows = <<>> THEN [fixtures |-> fixtures, raised |-> FALSE]
  ELSE LET row == Head(rows)
       IN IF ~HasCell(row, DateCol) \/ Strip(row[DateCol]) = ""
          THEN ScrapeRows(Tail(rows), start, end, league, fixtures)
          ELSE IF ~is_date_in_range(Strip(row[DateCol]), start, end)
          THEN ScrapeRows(Tail(rows), start, end, league, fixtures)
          ELSE IF ~(HasCell(row, TimeCol) /\ HasCell(row, HomeCol)
                     /\ HasCell(row, AwayCol) /\ HasCell(row, PitchCol))
          THEN [fixtures |-> fixtures, raised |-> TRUE]
          ELSE ScrapeRows(Tail(rows), start, end, league,
                 Append(fixtures,
                        Fixture(Strip(row[DateCol]), Strip(row[TimeCol]),
                                Strip(row[HomeCol]), Strip(row[AwayCol]),
                                Strip(row[PitchCol]), league)))

\* scrape_11s_league(url, start_date, end_date) on a fetch that ended
\* `outcome` and, when it succeeded, served the table rows `rows`: the two
\* except clauses and the missing-table branch return [], and so does an
\* exception raised inside the row loop
scrape_11s_league(url, outcome, rows, start, end) ==
  IF outcome # "ok" THEN <<>>
  ELSE LET r == ScrapeRows(rows, start, end, league_name_of(url), <<>>)
       IN IF r.raised THEN <<>> ELSE r.fixtures

\* day_map numbered as isoweekday() numbers the days (Monday is 1)
day_map_iso(name) ==
  IF name = "tuesday" THEN 2
  ELSE IF name = "wednesday" THEN 3
  ELSE IF name = "thursday" THEN 4
  ELSE IF name = "monday" THEN 1
  ELSE -1

\* day_map.get(name) of create_night_availability; -1 stands for None
day_map(name) ==
  IF name = "tuesday" THEN 1
  ELSE IF name = "wednesday" THEN 2
  ELSE IF name = "thursday" THEN 3
  ELSE IF name = "monday" THEN 0
  ELSE -1

\* target_weekday of create_night_availability
target_weekday_of(league_name) ==
  LET words == Split(league_name, " ")
  IN day_map(Lower(Strip(words[Len(words)])))

\* the while loop of create_night_availability from current_date on
RECURSIVE NightLoop(_, _, _, _)
NightLoop(current_date, end, target_weekday, league) ==
  IF ~(current_date <= end) THEN <<>>
  ELSE IF Weekday(current_date) = target_weekday
       THEN << Fixture(IsoFormat(current_date), "Night", league,
                       "OPEN NIGHT AVAILABILITY", "Multiple", "Night Referees") >>
       ELSE NightLoop(current_date + 1, end, target_weekday, league)

\* create_night_availability(url, start_date, end_date)
create_night_availability(url, start, end) ==
  LET league_name == league_name_of(url)
      target_weekday == target_weekday_of(league_name)
  IN IF target_weekday = -1 THEN <<>>
     ELSE NightLoop(start, end, target_weekday, league_name)

\* all_fixtures = items: an assignment where the code extends
Extend_assign(list, items) == items

\* all_fixtures.extend(items)
Extend(list, items) == list \o items

\* json.dumps of a text: quotes and backslashes escaped
RECURSIVE JsonEscape(_)
JsonEscape(s) ==
  IF s = "" THEN ""
  ELSE (IF Head(s) = "\"" THEN "\\\""
        ELSE IF Head(s) = "\\" THEN "\\\\"
        ELSE Head(s)) \o JsonEscape(Tail(s))

JsonString(s) == "\"" \o JsonEscape(s) \o "\""

JsonObject(f) ==
  "    {\n"
  \o "        \"date\": " \o JsonString(f.date) \o ",\n"
  \o "        \"time\": " \o JsonString(f.time) \o ",\n"
  \o "        \"home\": " \o JsonString(f.home) \o ",\n"
  \o "        \"away\": " \o JsonString(f.away) \o ",\n"
  \o "        \"pitch\": " \o JsonString(f.pitch) \o ",\n"
  \o "        \"league\": " \o JsonString(f.league) \o "\n"
  \o "    }"

RECURSIVE JsonItems(_)
JsonItems(fs) ==
  IF Len(fs) = 1 THEN JsonObject(fs[1])
  ELSE JsonObject(Head(fs)) \o ",\n" \o JsonItems(Tail(fs))

\* json.dumps(all_fixtures, indent=4)
JsonDumps(fs) == IF fs = <<>> THEN "[]" ELSE "[\n" \o JsonItems(fs) \o "\n]"

\* the rows a league page may serve, as the texts of their cells by position
ScraperRows ==
  { << " 08/11/2025 ", "14:00", "Ballers FC", "Dynamo Kev FC", "S1" >>,
    << "2025-11-14", "", "", "Bye", "S2" >>,
    << "10/11/2025", "19:00" >>,
    << "31/11/2025", "15:30", "Far Canal", "Wanderers", "S1" >>,
    << "15/11/2025", "10:00", "VUWAFC", "Wanderers", "T1" >> }

\* how the fetch of a league page can end: requests.get raising,
\* raise_for_status raising, select_one finding no table, a table served
Outcomes == {"ok", "network_error", "bad_status", "no_table"}

NoFile == [exists |-> FALSE, content |-> ""]

\* fixtures.json as the run of the week before leaves it when no page answered
PriorFile ==
  LET w == get_target_date_range(BaseDay - 7)
  IN [exists |-> TRUE,
      content |-> JsonDumps(create_night_availability(Default7s5s[1], w[1], w[2])
                            \o create_night_availability(Default7s5s[2], w[1], w[2]))]

(***************************************************************************)
(* fixture_generator.py                                                    *)
(***************************************************************************)
\* days_to_saturday going back a whole week on a Saturday
days_to_saturday_previous(t) == ((Weekday(t) - 5 + 6) % 7) + 1

\* days_to_saturday of calculate_target_week
days_to_saturday(t) == (Weekday(t) - 5 + 7) % 7

\* calculate_target_week(): <<start_date, end_date>>
calculate_target_week(t) ==
  LET start == t - days_to_saturday(t)
  IN <<start, start + 5>>

\* fixture_description of get_fixtures
fixture_description(home_team, away_team, league) ==
  home_team \o " vs " \o away_team \o " (" \o league \o ")"

\* is_small_sided without the 5's test
is_small_sided_7s_only(description) == Contains(description, "7's")

\* is_small_sided of get_fixtures
is_small_sided(description) ==
  Contains(description, "5's") \/ Contains(description, "7's")

\* `for row in rows[1:]` over every table: the rows the loop body sees
RECURSIVE BodyRows(_)
BodyRows(fixture_tables) ==
  IF fixture_tables = <<>> THEN <<>>
  ELSE (IF Head(fixture_tables) = <<>> THEN <<>> ELSE Tail(Head(fixture_tables)))
         \o BodyRows(Tail(fixture_tables))

\* the mock data get_fixtures falls back on
MockFixtures(start) ==
  << Fixture(IsoFormat(start), "14:00", "Ballers FC", "Dynamo Kev FC", "S1", "Mens Prem 11s"),
     Fixture(IsoFormat(start), "15:30", "Far Canal", "Wellington Right Wingers", "S1", "St Pats 11s"),
     Fixture(IsoFormat(start + 3), "19:00", "VUWAFC", "Wanderers", "T1", "Uni Cup 11s") >>

MockNotes ==
  << "Boyd Wilson Wednesday Night 7's",
     "Karori 5's Monday",
     "The filter logic is working, but this data is mocked." >>

\* the rows the fixtures page may serve, as the texts of their cells
GenRows ==
  { << "Sat 08/11/2025", "14:00", " Ballers FC ", "Dynamo 7s", "S1", "Mens Prem 11s" >>,
    << "Mon 10/11/2025", "19:00", "Karori 5's", "Wanderers", "T1", "Monday Social" >>,
    << "", "", "", "bye", "", "Boyd Wilson 7's" >>,
    << "Wed 12/11/2025", "18:30", "Karori 7's", "Wanderers", "T1" >> }

\* the pages: sequences of non-empty tables of at most n rows in all
RECURSIVE PagesWithin(_)
PagesWithin(n) ==
  {<<>>} \cup
    UNION { { <<t>> \o p : p \in PagesWithin(n - Len(t)) } :
            t \in SeqsUpTo(GenRows, n) \ {<<>>} }

(***************************************************************************)
(* State.                                                                  *)
(***************************************************************************)
VARIABLES
  pc,              \* the position of the running script
  today,           \* date.today()
  LEAGUES_7S_5S,   \* the configured 7s/5s league URLs
  start_date,      \* the window of fixture_scraper.py (0: not computed yet)
  end_date,
  idx,             \* the index of the next URL of the running for loop
  all_fixtures,    \* all_fixtures of main_scraper
  served,          \* per scraped 11s URL: how its fetch ended and its rows
  nights,          \* per processed 7s/5s URL: create_night_availability's list
  file,            \* fixtures.json
  output_json,     \* the value main_scraper returns
  week_start,      \* the window of fixture_generator.py (0: not computed yet)
  week_end,
  fixture_tables,  \* the tables of the page served to get_fixtures
  todo,            \* the rows its loop has still to see
  clean_fixtures,  \* clean_fixtures of get_fixtures, at "done" as returned
  notes_5s_7s      \* notes_5s_7s of get_fixtures, at "done" as returned

vars == << pc, today, LEAGUES_7S_5S, start_date, end_date, idx, all_fixtures,
           served, nights, file, output_json, week_start, week_end,
           fixture_tables, todo, clean_fixtures, notes_5s_7s >>

scraperVars == << LEAGUES_7S_5S, start_date, end_date, idx, all_fixtures,
                  served, nights, file, output_json >>
generatorVars == << week_start, week_end, fixture_tables, todo,
                    clean_fixtures, notes_5s_7s >>

RECURSIVE RowCount(_)
RowCount(s) == IF s = <<>> THEN 0 ELSE Len(Head(s).rows) + RowCount(Tail(s))

ScraperIdle ==
  /\ start_date = 0 /\ end_date = 0 /\ idx = 0
  /\ all_fixtures = <<>> /\ served = <<>> /\ nights = <<>>
  /\ output_json = ""

GeneratorIdle ==
  /\ week_start = 0 /\ week_end = 0
  /\ fixture_tables = <<>> /\ todo = <<>>
  /\ clean_fixtures = <<>> /\ notes_5s_7s = <<>>

(***************************************************************************)
(* Spec: a run of fixture_scraper.py (main_scraper).                       *)
(***************************************************************************)
Init ==
  /\ pc = "start"
  /\ today \in BaseDay..(BaseDay + MaxDayOffset)
  /\ LEAGUES_7S_5S \in Configs7s5s
  /\ file \in {NoFile, PriorFile}
  /\ ScraperIdle
  /\ GeneratorIdle

\* main_scraper: the window and the empty list
Start ==
  /\ pc = "start"
  /\ start_date' = get_target_date_range(today)[1]
  /\ end_date' = get_target_date_range(today)[2]
  /\ all_fixtures' = <<>>
  /\ idx' = 1
  /\ pc' = "scrape"
  /\ UNCHANGED << today, LEAGUES_7S_5S, served, nights, file, output_json >>
  /\ UNCHANGED generatorVars

\* main_scraper: one iteration of `for url in LEAGUES_11S`
Scrape11s ==
  /\ pc = "scrape"
  /\ \E outcome \in Outcomes :
       \E rows \in (IF outcome = "ok"
                    THEN SeqsUpTo(ScraperRows, MaxRows - RowCount(served))
                    ELSE {<<>>}) :
         /\ all_fixtures' =
              Extend(all_fixtures,
                     scrape_11s_league(LEAGUES_11S[idx], outcome, rows, start_date, end_date))
         /\ served' = Append(served, [outcome |-> outcome, rows |-> rows])
  /\ idx' = IF idx < Len(LEAGUES_11S) THEN idx + 1 ELSE 1
  /\ pc' = IF idx < Len(LEAGUES_11S) THEN "scrape" ELSE "avail"
  /\ UNCHANGED << today, LEAGUES_7S_5S, start_date, end_date, nights, file, output_json >>
  /\ UNCHANGED generatorVars

\* main_scraper: one iteration of `for url in LEAGUES_7S_5S`
Availability ==
  /\ pc = "avail"
  /\ LET r == create_night_availability(LEAGUES_7S_5S[idx], start_date, end_date)
     IN /\ all_fixtures' = Extend(all_fixtures, r)
        /\ nights' = Append(nights, r)
  /\ idx' = IF idx < Len(LEAGUES_7S_5S) THEN idx + 1 ELSE 1
  /\ pc' = IF idx < Len(LEAGUES_7S_5S) THEN "avail" ELSE "final"
  /\ UNCHANGED << today, LEAGUES_7S_5S, start_date, end_date, served, file, output_json >>
  /\ UNCHANGED generatorVars

\* main_scraper: the final processing. The file is written in the else
\* branch only
Finish ==
  /\ pc = "final"
  /\ LET text == JsonDumps(all_fixtures)
     IN IF all_fixtures = <<>>
        THEN /\ output_json' = "[]"
             /\ file' = file
        ELSE /\ output_json' = text
             /\ file' = [exists |-> TRUE, content |-> text]
  /\ pc' = "done"
  /\ UNCHANGED << today, LEAGUES_7S_5S, start_date, end_date, idx,
                  all_fixtures, served, nights >>
  /\ UNCHANGED generatorVars

Next == Start \/ Scrape11s \/ Availability \/ Finish

Spec == Init /\ [][Next]_vars

(***************************************************************************)
(* SpecGen: a run of fixture_generator.py (get_fixtures).                  *)
(***************************************************************************)
InitGen ==
  /\ pc = "start"
  /\ today \in BaseDay..(BaseDay + MaxDayOffset)
  /\ LEAGUES_7S_5S = Default7s5s
  /\ file = NoFile
  /\ ScraperIdle
  /\ GeneratorIdle

\* get_fixtures down to the loop: the fetch, the tables, the window. A
\* failed fetch and a page without tables return [], []
GenFetch ==
  /\ pc = "start"
  /\ \E outcome \in {"ok", "request_error"} :
       \E page \in (IF outcome = "ok" THEN PagesWithin(MaxGenRows) ELSE {<<>>}) :
         /\ fixture_tables' = page
         /\ IF page = <<>>
            THEN /\ pc' = "done"
                 /\ UNCHANGED << week_start, week_end, todo >>
            ELSE /\ week_start' = calculate_target_week(today)[1]
                 /\ week_end' = calculate_target_week(today)[2]
                 /\ todo' = BodyRows(page)
                 /\ pc' = IF BodyRows(page) = <<>> THEN "tail" ELSE "rows"
  /\ clean_fixtures' = <<>>
  /\ notes_5s_7s' = <<>>
  /\ UNCHANGED today
  /\ UNCHANGED scraperVars

\* get_fixtures: one iteration of `for row in rows[1:]`. (is_within_range
\* is computed from a dummy date and never read.)
GenRow ==
  /\ pc = "rows"
  /\ LET cols == Head(todo)
         home_team == Strip(cols[3])
         away_team == Strip(cols[4])
         league == Strip(cols[6])
         description == fixture_description(home_team, away_team, league)
     IN IF Len(cols) < 6
        THEN UNCHANGED << clean_fixtures, notes_5s_7s >>
        ELSE IF is_small_sided(description)
        THEN /\ notes_5s_7s' = Append(notes_5s_7s, description)
             /\ UNCHANGED clean_fixtures
        ELSE /\ clean_fixtures' =
                  Append(clean_fixtures,
                         Fixture("YYYY-MM-DD", Strip(cols[2]), home_team, away_team,
                                 Strip(cols[5]), league))
             /\ UNCHANGED notes_5s_7s
  /\ todo' = Tail(todo)
  /\ pc' = IF Tail(todo) = <<>> THEN "tail" ELSE "rows"
  /\ UNCHANGED << today, week_start, week_end, fixture_tables >>
  /\ UNCHANGED scraperVars

\* get_fixtures: the mock fall-backs and the return
GenReturn ==
  /\ pc = "tail"
  /\ clean_fixtures' = IF clean_fixtures = <<>> THEN MockFixtures(week_start)
                       ELSE clean_fixtures
  /\ notes_5s_7s' = IF notes_5s_7s = <<>> THEN MockNotes ELSE notes_5s_7s
  /\ pc' = "done"
  /\ UNCHANGED << today, week_start, week_end, fixture_tables, todo >>
  /\ UNCHANGED scraperVars

NextGen == GenFetch \/ GenRow \/ GenReturn

SpecGen == InitGen /\ [][NextGen]_vars

(***************************************************************************)
(* SpecCal: the window calculators and create_night_availability applied   *)
(* to inputs of their own.                                                 *)
(***************************************************************************)
InitCal ==
  /\ pc = "start"
  /\ today \in BaseDay..(BaseDay + MaxCalOffset)
  /\ LEAGUES_7S_5S \in {<<url>> : url \in NightUrls}
  /\ file = NoFile
  /\ ScraperIdle
  /\ GeneratorIdle

\* start_date, end_date = calculate_target_week()
CalcTargetWeek ==
  /\ week_start = 0
  /\ week_start' = calculate_target_week(today)[1]
  /\ week_end' = calculate_target_week(today)[2]
  /\ UNCHANGED << pc, today, fixture_tables, todo, clean_fixtures, notes_5s_7s >>
  /\ UNCHANGED scraperVars

\* target_sat, target_thu = get_target_date_range()
CalcTargetRange ==
  /\ start_date = 0
  /\ start_date' = get_target_date_range(today)[1]
  /\ end_date' = get_target_date_range(today)[2]
  /\ UNCHANGED << pc, today, LEAGUES_7S_5S, idx, all_fixtures, served, nights,
                  file, output_json >>
  /\ UNCHANGED generatorVars

\* create_night_availability(url, target_sat, target_thu)
NightAvailability ==
  /\ start_date # 0
  /\ nights = <<>>
  /\ nights' = << create_night_availability(LEAGUES_7S_5S[1], start_date, end_date) >>
  /\ UNCHANGED << pc, today, LEAGUES_7S_5S, start_date, end_date, idx,
                  all_fixtures, served, file, output_json >>
  /\ UNCHANGED generatorVars

NextCal == CalcTargetWeek \/ CalcTargetRange \/ NightAvailability

SpecCal == InitCal /\ [][NextCal]_vars
(***************************************************************************)
(* The claims.                                                             *)
(***************************************************************************)
\* date.weekday() of a Saturday and of a Thursday (WEEKDAY_MAP)
Saturday == 5
Thursday == 3

\* the date a fixture's date text stands for, read as is_date_in_range reads it
DateOf(text) ==
  LET dmy == ParseDMY(text)
  IN IF dmy # NoDate THEN dmy ELSE ParseYMD(text)

Emitted == {all_fixtures[i] : i \in 1..Len(all_fixtures)}

\* C1: for every today, each window calculator returns a start that is a
\* Saturday, start <= end, and an end a fixed number of days after the start:
\* 5 in calculate_target_week, 6 in get_target_date_range.
C1_WindowShape ==
  /\ week_start # 0 =>
       /\ Weekday(week_start) = Saturday
       /\ week_start <= week_end
       /\ week_end - week_start = 5
  /\ start_date # 0 =>
       /\ Weekday(start_date) = Saturday
       /\ start_date <= end_date
       /\ end_date - start_date = 6

C1_Witness ==
  /\ week_start # 0 /\ start_date # 0
  /\ Weekday(today) = 2
  /\ week_start < today /\ today < start_date

\* C2: on a Saturday both calculators start the window today; on any other
\* day calculate_target_week starts it on the latest Saturday of the previous
\* 6 days and get_target_date_range on the earliest Saturday of the next 6.
C2_SaturdayIsToday ==
  /\ week_start # 0 =>
       IF Weekday(today) = Saturday THEN week_start = today
       ELSE /\ week_start \in (today - 6)..(today - 1)
            /\ Weekday(week_start) = Saturday
            /\ \A d \in (week_start + 1)..(today - 1) : Weekday(d) # Saturday
  /\ start_date # 0 =>
       IF Weekday(today) = Saturday THEN start_date = today
       ELSE /\ start_date \in (today + 1)..(today + 6)
            /\ Weekday(start_date) = Saturday
            /\ \A d \in (today + 1)..(start_date - 1) : Weekday(d) # Saturday

C2_Witness ==
  /\ Weekday(today) = Saturday
  /\ week_start = today
  /\ start_date = today

\* C3: the end date get_target_date_range returns is a Thursday.
C3_EndIsThursday == start_date # 0 => Weekday(end_date) = Thursday

\* C4: every fixture main_scraper emits, scraped or placeholder, has a date
\* inside the window of the run, and no fixture carries the date text of a
\* served row whose date is outside the window or does not parse.
C4_EmittedInWindow ==
  /\ \A f \in Emitted :
       LET d == DateOf(f.date)
       IN d # NoDate /\ start_date <= d /\ d <= end_date
  /\ \A p \in 1..Len(served) : \A r \in 1..Len(served[p].rows) :
       LET row == served[p].rows[r]
           text == IF HasCell(row, DateCol) THEN Strip(row[DateCol]) ELSE ""
           d == DateOf(text)
       IN (d = NoDate \/ d < start_date \/ d > end_date)
            => \A f \in Emitted : f.date # text

C4_Witness ==
  /\ pc = "done"
  /\ \E f \in Emitted : f.date = "08/11/2025"
  /\ \E f \in Emitted : f.time = "Night"
  /\ \E p \in 1..Len(served) : \E r \in 1..Len(served[p].rows) :
       served[p].rows[r][DateCol] = "15/11/2025"

\* the description get_fixtures gives a row of six cells or more
RowDescription(row) ==
  Strip(row[3]) \o " vs " \o Strip(row[4]) \o " (" \o Strip(row[6]) \o ")"

NamesSmallSided(text) ==
  \E i \in 1..(Len(text) - 2) :
    /\ CharAt(text, i) \in {"5", "7"}
    /\ CharAt(text, i + 1) = "'"
    /\ CharAt(text, i + 2) = "s"

\* a fixture of the main list made from this row
InMainList(row) ==
  \E i \in 1..Len(clean_fixtures) :
    /\ clean_fixtures[i].time = Strip(row[2])
    /\ clean_fixtures[i].home = Strip(row[3])
    /\ clean_fixtures[i].away = Strip(row[4])
    /\ clean_fixtures[i].pitch = Strip(row[5])
    /\ clean_fixtures[i].league = Strip(row[6])

InNotes(text) == \E i \in 1..Len(notes_5s_7s) : notes_5s_7s[i] = text

\* C5: of the rows get_fixtures processes (after the first row of their
\* table, with at least 6 cells), one whose description contains 5's or 7's
\* is in the returned notes and not in the returned main list, and any
\* other is in the main list and not in the notes.
C5_SmallSidedToNotes ==
  pc = "done" =>
    \A t \in 1..Len(fixture_tables) : \A r \in 2..Len(fixture_tables[t]) :
      LET row == fixture_tables[t][r]
      IN Len(row) >= 6 =>
           IF NamesSmallSided(RowDescription(row))
           THEN InNotes(RowDescription(row)) /\ ~InMainList(row)
           ELSE InMainList(row) /\ ~InNotes(RowDescription(row))

C5_Witness ==
  /\ pc = "done"
  /\ \E t \in 1..Len(fixture_tables) : \E r \in 2..Len(fixture_tables[t]) :
       /\ Len(fixture_tables[t][r]) >= 6
       /\ NamesSmallSided(RowDescription(fixture_tables[t][r]))
       /\ InNotes(RowDescription(fixture_tables[t][r]))
  /\ \E t \in 1..Len(fixture_tables) : \E r \in 2..Len(fixture_tables[t]) :
       /\ Len(fixture_tables[t][r]) >= 6
       /\ ~NamesSmallSided(RowDescription(fixture_tables[t][r]))
       /\ InMainList(fixture_tables[t][r])

\* the weekday (as date.weekday() numbers it) that the last word of the
\* league name of a URL names, -1 when it names none of the configured days
ConfiguredWeekday(url) ==
  LET name == Lower(league_name_of(url))
      blanks == {i \in 1..Len(name) : CharAt(name, i) = " "}
      from == IF blanks = {} THEN 1
              ELSE (CHOOSE i \in blanks : \A j \in blanks : j <= i) + 1
      word == SubSeq(name, from, Len(name))
  IN CASE word = "monday" -> 0
       [] word = "tuesday" -> 1
       [] word = "wednesday" -> 2
       [] word = "thursday" -> 3
       [] OTHER -> -1

\* C6: for a window of get_target_date_range, create_night_availability
\* returns for a league whose name ends in a configured weekday exactly one
\* fixture, with time "Night" and a date inside the window that falls on that
\* weekday; for any other league it returns none; never more than one.
C6_OneNightPerLeague ==
  nights # <<>> =>
    LET r == nights[1]
        day == ConfiguredWeekday(LEAGUES_7S_5S[1])
    IN /\ Len(r) <= 1
       /\ IF day = -1 THEN r = <<>>
          ELSE /\ Len(r) = 1
               /\ r[1].time = "Night"
               /\ ParseYMD(r[1].date) # NoDate
               /\ start_date <= ParseYMD(r[1].date)
               /\ ParseYMD(r[1].date) <= end_date
               /\ Weekday(ParseYMD(r[1].date)) = day

C6_Witness ==
  /\ nights # <<>>
  /\ Len(nights[1]) = 1
  /\ ConfiguredWeekday(LEAGUES_7S_5S[1]) = 3
  /\ Weekday(today) = 4

\* C7: no emitted fixture has an empty home, away or time text, or a team
\* named "bye" in any case.
C7_NoEmptyNoBye ==
  \A f \in Emitted :
    /\ f.home # "" /\ f.away # "" /\ f.time # ""
    /\ Lower(f.home) # "bye" /\ Lower(f.away) # "bye"

\* what the page of the i-th 11s URL contributes: nothing when its fetch failed
Contribution(i) ==
  IF served[i].outcome = "ok"
  THEN scrape_11s_league(LEAGUES_11S[i], "ok", served[i].rows, start_date, end_date)
  ELSE <<>>

\* C8: whichever league fetches fail, the run moves on to the next URL and
\* on to its end, and the emitted list is the fixtures of the URLs that
\* succeeded, in the configured order, followed by the placeholders; no
\* fixture of a failed URL is in it.
C8_FailuresIsolated ==
  /\ pc \in {"start", "scrape", "avail", "final", "done"}
  /\ pc = "scrape" => idx \in 1..Len(LEAGUES_11S) /\ Len(served) = idx - 1
  /\ pc = "avail" => idx \in 1..Len(LEAGUES_7S_5S) /\ Len(nights) = idx - 1
  /\ pc \in {"final", "done"} =>
       /\ Len(served) = Len(LEAGUES_11S)
       /\ Len(nights) = Len(LEAGUES_7S_5S)
       /\ all_fixtures =
            Flatten([i \in 1..Len(served) |-> Contribution(i)]) \o Flatten(nights)
       /\ \A i \in 1..Len(served) :
            served[i].outcome # "ok" =>
              \A f \in Emitted : f.league # league_name_of(LEAGUES_11S[i])

C8_Witness ==
  /\ pc = "done"
  /\ served[1].outcome = "ok" /\ Contribution(1) # <<>>
  /\ served[2].outcome = "no_table"
  /\ nights[1] # <<>>
  /\ Len(all_fixtures) = 3

\* a row with its date, time, home, away and pitch cells and a date text
WellFormed(row) ==
  /\ HasCell(row, PitchCol)
  /\ Strip(row[DateCol]) # ""

RowInWindow(row) ==
  /\ DateOf(Strip(row[DateCol])) # NoDate
  /\ start_date <= DateOf(Strip(row[DateCol]))
  /\ DateOf(Strip(row[DateCol])) <= end_date

\* C9: a row lacking a time, home, away or pitch cell yields no fixture and
\* costs no other row its fixture: every well-formed in-window row of a
\* served page is emitted.
C9_MalformedRowSkippedAlone ==
  pc = "done" =>
    \A p \in 1..Len(served) :
      served[p].outcome = "ok" =>
        \A r \in 1..Len(served[p].rows) :
          LET row == served[p].rows[r]
          IN IF WellFormed(row)
             THEN RowInWindow(row) =>
                    Fixture(Strip(row[DateCol]), Strip(row[TimeCol]), Strip(row[HomeCol]),
                            Strip(row[AwayCol]), Strip(row[PitchCol]),
                            league_name_of(LEAGUES_11S[p])) \in Emitted
             ELSE \A f \in Emitted :
                    ~(f.date = Strip(row[DateCol]) /\ f.league = league_name_of(LEAGUES_11S[p]))

\* C10: after a run of main_scraper fixtures.json holds the JSON array of
\* the fixtures of that run and equals the returned value, also when the run
\* accepted no fixture.
C10_FileHoldsTheRun ==
  pc = "done" =>
    /\ file.exists
    /\ file.content = JsonDumps(all_fixtures)
    /\ file.content = output_json
====
